---------------------------- MODULE Spec2Model ----------------------------
(***************************************************************************)
(* Model of docker/test-environment/health_server.py: a single-process,    *)
(* sequential HTTPServer whose HealthCheckHandler answers GET and POST     *)
(* requests from a fixed routing table.                                    *)
(*                                                                         *)
(* Time is counted in ticks (TicksPerSec ticks to the second), so that the *)
(* truncation in `int(time.time() - server_start_time)` is visible.        *)
(* A request body is a sequence of JSON lexemes (tokens); Content-Length   *)
(* counts tokens.  json.loads is modelled as a recursive-descent parser    *)
(* over that sequence.                                                     *)
(***************************************************************************)
EXTENDS Integers, Sequences, FiniteSets, TLC

(* ------------------------------ bounds -------------------------------- *)

\* Connections opened by clients during one process lifetime.
NumConns == 3

\* Last tick of the wall clock that the model explores.
MaxTime == 3

\* Clock resolution: ticks per second.
TicksPerSec == 2

\* Largest announced Content-Length (in tokens).
MaxLen == 9

(* ------------------------------- state -------------------------------- *)

VARIABLES
  now,                \* time.time(), in ticks
  server_start_time,  \* the module global: <<>> until bound, then <<t>>
  arrived,            \* connections clients have opened, their request sent
  accepted,           \* connections the accept loop has taken, in order
  pc,                 \* the handler: "idle", "blocked" in rfile.read, "closed"
  cur,                \* the connection being handled, or the last one handled
  wire,               \* what that connection has received
  prev_uptime,        \* history: uptime of the last /health answer before cur
  upgraded            \* history: an upgrade to 2.0.0 was answered before cur

vars == <<now, server_start_time, arrived, accepted, pc, cur, wire,
          prev_uptime, upgraded>>

(* ------------------------------ JSON ---------------------------------- *)

\* Lexemes of a request body.
Punct(c) == [k |-> "punct", v |-> c]
Str(s)   == [k |-> "str", v |-> s]
Num(n)   == [k |-> "num", v |-> n]
Lit(l)   == [k |-> "lit", v |-> l]
Junk     == [k |-> "junk", v |-> "\\xff"]

LBRACE == Punct("{")
RBRACE == Punct("}")
LBRACK == Punct("[")
RBRACK == Punct("]")
COLON  == Punct(":")
COMMA  == Punct(",")

\* Python values produced by json.loads.  A dict is the sequence of its
\* (key, value) pairs in insertion order.
PyStrVal(s)  == [t |-> "str", v |-> s]
PyNumVal(n)  == [t |-> "num", v |-> n]
PyLitVal(l)  == [t |-> "lit", v |-> l]
PyList(xs)   == [t |-> "list", v |-> xs]
PyDict(kvs)  == [t |-> "dict", v |-> kvs]

\* d[k] = v on a dict: a repeated key keeps its position and takes the new value.
DictSet(kvs, k, v) ==
  IF \E i \in 1..Len(kvs) : kvs[i][1] = k
  THEN [i \in 1..Len(kvs) |-> IF kvs[i][1] = k THEN <<k, v>> ELSE kvs[i]]
  ELSE Append(kvs, <<k, v>>)

DictHas(kvs, k) == \E i \in 1..Len(kvs) : kvs[i][1] = k

DictGet(kvs, k, default) ==
  IF DictHas(kvs, k)
  THEN kvs[CHOOSE i \in 1..Len(kvs) : kvs[i][1] = k][2]
  ELSE default

\* Result of a parse: the value and the index of the first token after it.
ParseOk(val, next) == [ok |-> TRUE, val |-> val, next |-> next]
ParseFail == [ok |-> FALSE, val |-> PyLitVal("null"), next |-> 0]

RECURSIVE ParseValue(_, _)
RECURSIVE ParseElems(_, _, _)
RECURSIVE ParseMembers(_, _, _)

\* json.JSONDecoder.raw_decode at token i.
ParseValue(toks, i) ==
  IF i > Len(toks) THEN ParseFail
  ELSE LET tk == toks[i] IN
    CASE tk.k = "str" -> ParseOk(PyStrVal(tk.v), i + 1)
      [] tk.k = "num" -> ParseOk(PyNumVal(tk.v), i + 1)
      [] tk.k = "lit" -> ParseOk(PyLitVal(tk.v), i + 1)
      [] tk = LBRACK ->
           IF i + 1 <= Len(toks) /\ toks[i + 1] = RBRACK
           THEN ParseOk(PyList(<<>>), i + 2)
           ELSE ParseElems(toks, i + 1, <<>>)
      [] tk = LBRACE ->
           IF i + 1 <= Len(toks) /\ toks[i + 1] = RBRACE
           THEN ParseOk(PyDict(<<>>), i + 2)
           ELSE ParseMembers(toks, i + 1, <<>>)
      [] OTHER -> ParseFail

\* The elements of a JSON array, from token i, after the elements in acc.
ParseElems(toks, i, acc) ==
  LET r == ParseValue(toks, i) IN
  IF ~r.ok \/ r.next > Len(toks) THEN ParseFail
  ELSE IF toks[r.next] = COMMA
       THEN ParseElems(toks, r.next + 1, Append(acc, r.val))
  ELSE IF toks[r.next] = RBRACK
       THEN ParseOk(PyList(Append(acc, r.val)), r.next + 1)
  ELSE ParseFail

\* The members of a JSON object, from token i, after the members in acc.
ParseMembers(toks, i, acc) ==
  IF i + 1 > Len(toks) \/ toks[i].k # "str" \/ toks[i + 1] # COLON
  THEN ParseFail
  ELSE LET r == ParseValue(toks, i + 2) IN
    IF ~r.ok \/ r.next > Len(toks) THEN ParseFail
    ELSE IF toks[r.next] = COMMA
         THEN ParseMembers(toks, r.next + 1, DictSet(acc, toks[i].v, r.val))
    ELSE IF toks[r.next] = RBRACE
         THEN ParseOk(PyDict(DictSet(acc, toks[i].v, r.val)), r.next + 1)
    ELSE ParseFail

\* json.loads(post_data.decode('utf-8')): one value and nothing after it;
\* anything else raises (ok = FALSE).
json_loads(toks) ==
  LET r == ParseValue(toks, 1) IN
  IF r.ok /\ r.next = Len(toks) + 1 THEN r ELSE ParseFail

RECURSIVE PyRepr(_)
RECURSIVE ReprItems(_, _)
RECURSIVE ReprPairs(_, _)

\* repr(x) of a parsed value.
PyRepr(x) ==
  CASE x.t = "str" -> "'" \o x.v \o "'"
    [] x.t = "num" -> x.v
    [] x.t = "lit" -> (CASE x.v = "null" -> "None"
                         [] x.v = "true" -> "True"
                         [] OTHER -> "False")
    [] x.t = "list" -> "[" \o ReprItems(x.v, 1) \o "]"
    [] OTHER -> "{" \o ReprPairs(x.v, 1) \o "}"

ReprItems(xs, i) ==
  IF i > Len(xs) THEN ""
  ELSE PyRepr(xs[i]) \o (IF i < Len(xs) THEN ", " ELSE "") \o ReprItems(xs, i + 1)

ReprPairs(kvs, i) ==
  IF i > Len(kvs) THEN ""
  ELSE "'" \o kvs[i][1] \o "': " \o PyRepr(kvs[i][2])
       \o (IF i < Len(kvs) THEN ", " ELSE "") \o ReprPairs(kvs, i + 1)

\* str(x), as an f-string formats a value: a str is itself, the rest is repr.
PyFormat(x) == IF x.t = "str" THEN x.v ELSE PyRepr(x)


(* ----------------------------- requests ------------------------------- *)

\* Request paths sent by clients: the six table paths, then a table path with
\* a query string, with a trailing slash, as a proper prefix of the path, and
\* the root.
Paths == {"/health", "/version", "/info", "/metrics", "/restart", "/upgrade",
          "/health?x=1", "/health/", "/upgrade/now", "/"}

\* Request methods other than GET and POST.
OtherMethods == {"PUT", "DELETE", "HEAD"}

\* The Content-Length header of a request: <<>> when the header is missing,
\* <<n>> when it announces n.
ContentLengthHeaders == {<<>>} \cup {<<n>> : n \in 0..MaxLen}

\* Bodies clients send with POST /upgrade.
Bodies ==
  { <<>>,
    <<LBRACE, Str("version"), COLON, Str("2.0.0"), RBRACE>>,
    <<LBRACE, Str("version"), COLON, Str(""), RBRACE>>,
    <<LBRACE, Str("force"), COLON, Lit("true"), COMMA,
      Str("version"), COLON, Str("1.1.0"), RBRACE>>,
    <<LBRACE, Str("force"), COLON, Lit("true"), RBRACE>>,
    <<LBRACE, Str("version"), COLON, Num("2"), RBRACE>>,
    <<LBRACE, RBRACE>>,
    <<LBRACK, Str("2.0.0"), RBRACK>>,
    <<Str("2.0.0")>>,
    <<Num("2")>>,
    <<Junk>> }

IsPrefix(s, t) == Len(s) <= Len(t) /\ SubSeq(t, 1, Len(s)) = s

(* ----------------------------- responses ------------------------------ *)

\* What a connection has received from the server: the status lines, the
\* Content-type headers (written with the end of the headers) and the bodies
\* written, each in order.
NoResponse == [status |-> <<>>, ctype |-> <<>>, body |-> <<>>]

\* send_response, send_header('Content-type', ..), end_headers.
SendHeaders(code, ctype) == [status |-> <<code>>, ctype |-> <<ctype>>, body |-> <<>>]

\* The headers, then wfile.write of the payload.  A JSON payload
\* (json.dumps(response).encode()) is the record of the document's members.
Respond(code, ctype, payload) ==
  [status |-> <<code>>, ctype |-> <<ctype>>, body |-> <<payload>>]

\* A plain-text payload.
TextBody(text) == [text |-> text]

\* int(x) of a number of ticks, in whole seconds: truncation toward zero.
IntSeconds(ticks) ==
  IF ticks >= 0 THEN ticks \div TicksPerSec ELSE -((-ticks) \div TicksPerSec)

\* An uptime that forgets to subtract the start time.
UptimeSinceEpoch(t, start) == IntSeconds(t)

\* int(time.time() - server_start_time)
Uptime(t, start) == IntSeconds(t - start)

HealthBody(t, start) ==
  [status |-> "healthy", timestamp |-> t, service |-> "test-environment",
            uptime |-> Uptime(t, start), version |-> "1.0.0"]

\* A /version body that follows the last upgrade.
VersionBodyAfterUpgrade ==
  IF upgraded \/ (pc = "closed" /\ cur.method = "POST" /\ cur.path = "/upgrade"
                    /\ wire.body # <<>>)
  THEN [current |-> "2.0.0", available |-> <<>>]
  ELSE [current |-> "1.0.0", available |-> <<"1.0.1", "1.1.0", "2.0.0">>]

VersionBody ==
  [current |-> "1.0.0", available |-> <<"1.0.1", "1.1.0", "2.0.0">>]

InfoBody ==
  [hostname |-> "test-environment", os |-> "Linux",
            platform |-> "Docker", environment |-> "test"]

\* The three float literals are kept as their decimal text.
MetricsBody ==
  [cpu_usage |-> "15.2", memory_usage |-> "45.7",
            disk_usage |-> "23.1", active_connections |-> 3]

RestartBody(t) ==
  [status |-> "success", message |-> "Service restart initiated",
            timestamp |-> t]

UpgradeBody(version, t) ==
  [status |-> "success",
            message |-> "Upgrade to version " \o version \o " initiated",
            timestamp |-> t]

NotFound == Respond(404, "text/plain", TextBody("Not Found"))

(* ----------------------------- handlers ------------------------------- *)

\* A do_GET that drops the query string and a trailing slash before it
\* compares the path.
GetRouteNormalised(path) ==
  IF path \in {"/health", "/health?x=1", "/health/"} THEN "health"
  ELSE IF path = "/version" THEN "version"
  ELSE IF path = "/info" THEN "info"
  ELSE IF path = "/metrics" THEN "metrics"
  ELSE "not_found"

\* The branch of do_GET that a path takes.
GetRoute(path) ==
  IF path = "/health" THEN "health"
  ELSE IF path = "/version" THEN "version"
  ELSE IF path = "/info" THEN "info"
  ELSE IF path = "/metrics" THEN "metrics"
  ELSE "not_found"

\* The branch of do_POST that a path takes.
PostRoute(path) ==
  IF path = "/restart" THEN "restart"
  ELSE IF path = "/upgrade" THEN "upgrade"
  ELSE "not_found"

\* do_GET at time t, with the global server_start_time = start.
do_GET(path, t, start) ==
  CASE GetRoute(path) = "health" -> Respond(200, "application/json", HealthBody(t, start))
    [] GetRoute(path) = "version" -> Respond(200, "application/json", VersionBody)
    [] GetRoute(path) = "info" -> Respond(200, "application/json", InfoBody)
    [] GetRoute(path) = "metrics" -> Respond(200, "application/json", MetricsBody)
    [] OTHER -> NotFound

\* A handler that never looks the version up.
GetVersionNever(kvs) == PyStrVal("unknown")

\* data.get("version", "unknown") on a dict.
GetVersion(kvs) == DictGet(kvs, "version", PyStrVal("unknown"))

\* The /upgrade branch of do_POST from json.loads on: what it raises (""
\* when nothing) and what the connection has received when it returns.
UpgradeRespond(post_data, t) ==
  LET r == json_loads(post_data) IN
  IF ~r.ok
  THEN [raised |-> "JSONDecodeError", wire |-> NoResponse]
  ELSE IF r.val.t # "dict"
  THEN [raised |-> "AttributeError", wire |-> SendHeaders(200, "application/json")]
  ELSE [raised |-> "",
        wire |-> Respond(200, "application/json",
                         UpgradeBody(PyFormat(GetVersion(r.val.v)), t))]

\* BaseHTTPRequestHandler.handle_one_request for a method the class defines
\* no do_<METHOD> for: send_error(501), whose body is left out for HEAD.
Unsupported(method) ==
  IF method = "HEAD"
  THEN SendHeaders(501, "text/html;charset=utf-8")
  ELSE Respond(501, "text/html;charset=utf-8",
               TextBody("Unsupported method ('" \o method \o "')"))

(* --------------------------- initial state ---------------------------- *)

\* A connection: the request line, the Content-Length header as the handler
\* read it (<<>> also when it never read it), the body bytes rfile.read has
\* received so far (all it returned, once the handler is past it), and the
\* exception the handler raised ("" when none).
Conn(method, path, content_length, post_data, raised) ==
  [method |-> method, path |-> path, content_length |-> content_length,
   post_data |-> post_data, raised |-> raised]

NoConn == Conn("", "", <<>>, <<>>, "")

Init ==
  /\ now = 0
  /\ server_start_time = <<>>
  /\ arrived = 0
  /\ accepted = 0
  /\ pc = "idle"
  /\ cur = NoConn
  /\ wire = NoResponse
  /\ prev_uptime = <<>>
  /\ upgraded = FALSE

(* ------------------------------ actions ------------------------------- *)

\* __main__: bind server_start_time, bind the socket, serve_forever.
Start ==
  /\ server_start_time = <<>>
  /\ server_start_time' = <<now>>
  /\ UNCHANGED <<now, arrived, accepted, pc, cur, wire, prev_uptime, upgraded>>

\* The wall clock advances.
Tick ==
  /\ now < MaxTime
  /\ now' = now + 1
  /\ UNCHANGED <<server_start_time, arrived, accepted, pc, cur, wire,
                 prev_uptime, upgraded>>

\* A client connects to the listening socket and sends its request.
Connect ==
  /\ server_start_time # <<>>
  /\ arrived < NumConns
  /\ arrived' = arrived + 1
  /\ UNCHANGED <<now, server_start_time, accepted, pc, cur, wire,
                 prev_uptime, upgraded>>

\* serve_forever handles one connection at a time, in the order of arrival.
CanAccept ==
  /\ server_start_time # <<>>
  /\ pc # "blocked"
  /\ accepted < arrived

HealthAnswered ==
  /\ pc = "closed" /\ cur.method = "GET" /\ cur.path = "/health"

UpgradeAnswered(version) ==
  /\ pc = "closed" /\ cur.method = "POST" /\ cur.path = "/upgrade"
  /\ wire.body # <<>>
  /\ wire.body[1].message = "Upgrade to version " \o version \o " initiated"

\* The history variables take note of the connection that cur replaces.
Remember ==
  /\ prev_uptime' = IF HealthAnswered THEN <<wire.body[1].uptime>> ELSE prev_uptime
  /\ upgraded' = (upgraded \/ UpgradeAnswered("2.0.0"))

\* A handler that binds server_start_time again.
HandlerRebindsStart == server_start_time' = <<now>>

\* What a request handler does to the module's globals: it binds none.
HandlerGlobals == server_start_time' = server_start_time

\* serve_forever takes the next connection; the handler that runs binds no
\* global and does not touch the clock.
Accept ==
  /\ CanAccept
  /\ accepted' = accepted + 1
  /\ Remember
  /\ HandlerGlobals
  /\ UNCHANGED <<now, arrived>>

\* do_GET
HandleGET ==
  /\ Accept
  /\ \E path \in Paths :
       /\ cur' = Conn("GET", path, <<>>, <<>>, "")
       /\ wire' = do_GET(path, now, server_start_time[1])
  /\ pc' = "closed"

\* do_POST, the branches that read nothing from the request.
do_POST(path, t) ==
  IF PostRoute(path) = "restart"
  THEN Respond(200, "application/json", RestartBody(t))
  ELSE NotFound

\* rfile.read(n) when `received` is all the client has sent so far: it
\* returns n bytes once there are n, and what there is at end of stream.
ReadData(n, received) ==
  IF Len(received) >= n THEN SubSeq(received, 1, n) ELSE received

\* do_POST.  For /upgrade the client's Content-Length header and body are
\* drawn here, where the handler first looks at them; a client that has sent
\* less than it announced has closed its sending side (eof) or has not.
HandlePOST ==
  /\ Accept
  /\ \E path \in Paths :
       IF PostRoute(path) # "upgrade"
       THEN /\ cur' = Conn("POST", path, <<>>, <<>>, "")
            /\ wire' = do_POST(path, now)
            /\ pc' = "closed"
       ELSE \E header \in ContentLengthHeaders :
         IF header = <<>>
         THEN \* int(None)
              /\ cur' = Conn("POST", path, header, <<>>, "TypeError")
              /\ wire' = NoResponse
              /\ pc' = "closed"
         ELSE \E body \in Bodies :
           \E eof \in IF Len(body) >= header[1] THEN {TRUE} ELSE BOOLEAN :
             IF eof
             THEN LET post_data == ReadData(header[1], body)
                      u == UpgradeRespond(post_data, now)
                  IN /\ cur' = Conn("POST", path, header, post_data, u.raised)
                     /\ wire' = u.wire
                     /\ pc' = "closed"
             ELSE \* rfile.read waits for the rest of the body
                  /\ cur' = Conn("POST", path, header, body, "")
                  /\ wire' = NoResponse
                  /\ pc' = "blocked"

\* The handler returns from rfile.read with post_data and runs to its end.
FinishUpgrade(post_data) ==
  LET u == UpgradeRespond(post_data, now) IN
  /\ cur' = [cur EXCEPT !.post_data = post_data, !.raised = u.raised]
  /\ wire' = u.wire
  /\ pc' = "closed"
  /\ HandlerGlobals
  /\ UNCHANGED <<now, arrived, accepted, prev_uptime, upgraded>>

\* The client of the blocked connection sends more of its body.
ClientSendsMore ==
  /\ pc = "blocked"
  /\ \E body \in Bodies :
       /\ IsPrefix(cur.post_data, body)
       /\ Len(body) > Len(cur.post_data)
       /\ IF Len(body) >= cur.content_length[1]
          THEN FinishUpgrade(ReadData(cur.content_length[1], body))
          ELSE /\ cur' = [cur EXCEPT !.post_data = body]
               /\ UNCHANGED <<now, server_start_time, arrived, accepted, pc,
                              wire, prev_uptime, upgraded>>

\* The client of the blocked connection closes its sending side.
ClientCloses ==
  /\ pc = "blocked"
  /\ FinishUpgrade(cur.post_data)

\* A request whose method the handler class has no do_<METHOD> for.
HandleUnsupported ==
  /\ Accept
  /\ \E method \in OtherMethods, path \in Paths :
       /\ cur' = Conn(method, path, <<>>, <<>>, "")
       /\ wire' = Unsupported(method)
  /\ pc' = "closed"

Next ==
  \/ Start
  \/ Tick
  \/ Connect
  \/ HandleGET
  \/ HandlePOST
  \/ HandleUnsupported
  \/ ClientSendsMore
  \/ ClientCloses

Spec == Init /\ [][Next]_vars

\* The server's own steps are taken whenever they stay possible; clients and
\* the clock are under no obligation.
ServerStep == Start \/ HandleGET \/ HandlePOST \/ HandleUnsupported

LiveSpec == Spec /\ WF_vars(ServerStep)

(* ------------------------------- claims ------------------------------- *)

\* The (method, path) pairs that the handlers answer with 200.
RoutingTable ==
  {<<"GET", "/health">>, <<"GET", "/version">>, <<"GET", "/info">>,
   <<"GET", "/metrics">>, <<"POST", "/restart">>, <<"POST", "/upgrade">>}

\* The connection in cur has been handled and closed.
Closed == pc = "closed"

Handled(method, path) == Closed /\ cur.method = method /\ cur.path = path

NotFoundResponse ==
  [status |-> <<404>>, ctype |-> <<"text/plain">>,
   body |-> <<[text |-> "Not Found"]>>]

\* C1: a GET or POST request whose (method, path) is not in the routing
\* table is answered 404, text/plain, 'Not Found'; the path is compared as
\* the exact string (query string, trailing slash, longer path, other method).
C1_UnroutedGetPostIsNotFound ==
  (Closed /\ cur.method \in {"GET", "POST"}
     /\ <<cur.method, cur.path>> \notin RoutingTable)
    => wire = NotFoundResponse

\* C1's case: GET of a table path followed by a query string, answered 404.
C1_Witness ==
  /\ Handled("GET", "/health?x=1")
  /\ wire = NotFoundResponse

\* The message of the one JSON body the connection received is m.
UpgradeMessageIs(m) ==
  /\ wire.status = <<200>>
  /\ wire.ctype = <<"application/json">>
  /\ Len(wire.body) = 1
  /\ DOMAIN wire.body[1] = {"status", "message", "timestamp"}
  /\ wire.body[1].status = "success"
  /\ wire.body[1].message = m

\* The body read is a JSON object.
IsObject(post_data) ==
  json_loads(post_data).ok /\ json_loads(post_data).val.t = "dict"

\* C2: POST /upgrade with an empty body, with a missing or zero
\* Content-Length, or with a JSON object that has no 'version' member is
\* answered 200 with 'Upgrade to version unknown initiated'.
C2_UpgradeWithoutVersionIsUnknown ==
  (Handled("POST", "/upgrade")
     /\ \/ cur.content_length = <<>>
        \/ cur.content_length = <<0>>
        \/ cur.post_data = <<>>
        \/ (IsObject(cur.post_data)
              /\ ~DictHas(json_loads(cur.post_data).val.v, "version")))
    => UpgradeMessageIs("Upgrade to version unknown initiated")

\* C3: POST /upgrade with a body that is not valid JSON, or is JSON but not
\* an object, is answered 200, application/json, 'Upgrade to version unknown
\* initiated'.
C3_UnparseableBodyIsUnknown ==
  (Handled("POST", "/upgrade")
     /\ cur.content_length # <<>>
     /\ cur.post_data # <<>>
     /\ ~IsObject(cur.post_data))
    => UpgradeMessageIs("Upgrade to version unknown initiated")

\* C4: every handled request got exactly one complete response: one status
\* line, the headers and the body (a response to HEAD carries no body).
C4_ExactlyOneCompleteResponse ==
  Closed =>
    /\ Len(wire.status) = 1
    /\ Len(wire.ctype) = 1
    /\ Len(wire.body) = IF cur.method = "HEAD" THEN 0 ELSE 1

\* C5: POST /upgrade with a JSON object whose 'version' member is the string
\* X is answered 200, status 'success', message 'Upgrade to version X
\* initiated', whatever the other members are.
C5_UpgradeEchoesVersion ==
  (Handled("POST", "/upgrade")
     /\ cur.content_length # <<>>
     /\ IsObject(cur.post_data)
     /\ DictHas(json_loads(cur.post_data).val.v, "version")
     /\ DictGet(json_loads(cur.post_data).val.v, "version", PyStrVal("")).t = "str")
    => UpgradeMessageIs(
         "Upgrade to version "
           \o DictGet(json_loads(cur.post_data).val.v, "version", PyStrVal("")).v
           \o " initiated")

\* C5's case: the version is echoed from an object that has another member.
C5_Witness ==
  /\ Handled("POST", "/upgrade")
  /\ cur.post_data = <<LBRACE, Str("force"), COLON, Lit("true"), COMMA,
                       Str("version"), COLON, Str("1.1.0"), RBRACE>>
  /\ UpgradeMessageIs("Upgrade to version 1.1.0 initiated")

C7_FixedBodies ==
  /\ Handled("GET", "/version") =>
       wire = [status |-> <<200>>, ctype |-> <<"application/json">>,
               body |-> <<[current |-> "1.0.0",
                           available |-> <<"1.0.1", "1.1.0", "2.0.0">>]>>]
  /\ Handled("GET", "/info") =>
       wire = [status |-> <<200>>, ctype |-> <<"application/json">>,
               body |-> <<[hostname |-> "test-environment", os |-> "Linux",
                           platform |-> "Docker", environment |-> "test"]>>]
  /\ Handled("GET", "/metrics") =>
       wire = [status |-> <<200>>, ctype |-> <<"application/json">>,
               body |-> <<[cpu_usage |-> "15.2", memory_usage |-> "45.7",
                           disk_usage |-> "23.1", active_connections |-> 3]>>]

\* C7's case: GET /version answered after an upgrade to 2.0.0 was.
C7_Witness ==
  /\ upgraded
  /\ Handled("GET", "/version")
  /\ wire.status = <<200>>

\* C8: a request outside the routing table is answered 404 'Not Found'
\* whatever its method, and no request is answered with a status other than
\* 200 or 404.
C8_UnroutedAnyMethodIsNotFound ==
  /\ (Closed /\ <<cur.method, cur.path>> \notin RoutingTable)
       => wire = NotFoundResponse
  /\ \A i \in 1..Len(wire.status) : wire.status[i] \in {200, 404}

\* C9: every connection whose request has arrived is eventually taken by the
\* server and handled; none waits forever behind the read of another
\* connection's /upgrade body.
C9_EveryRequestEventuallyHandled ==
  \A c \in 1..NumConns : (arrived >= c) ~> (accepted >= c)

\* C10: server_start_time is bound once, before the first request is
\* accepted, and no step changes it afterwards.
C10_StartTimeReadOnly ==
  /\ [](accepted > 0 => server_start_time # <<>>)
  /\ [][server_start_time # <<>> => server_start_time' = server_start_time]_vars

\* C10's case: POST /restart answered after an upgrade, later than the start.
C10_Witness ==
  /\ upgraded
  /\ Handled("POST", "/restart")
  /\ wire.status = <<200>>
  /\ now > server_start_time[1]

=============================================================================
